---- MODULE Spec2Model ----
(***************************************************************************)
(* Model of the windowed rendering harness (src/src/framework.rs) and of   *)
(* the cube renderer plugged into it (src/src/main.rs).                    *)
(*                                                                         *)
(* The program is single threaded: winit's event loop calls                *)
(* App::resumed and App::window_event one at a time.  Every action below   *)
(* is one complete handler call.  The calls a handler makes on its         *)
(* collaborators (window, surface, renderer) are recorded, in program      *)
(* order, in the variable ops.                                             *)
(***************************************************************************)
EXTENDS Integers, Sequences, FiniteSets, TLC

\* ------------------------------------------------------------------ bounds

\* Largest window width/height delivered by the platform (0 is included:
\* a minimised window reports a zero-sized Resized event).
MaxDim == 2
\* Number of resumed signals the platform delivers at most.
MaxResumes == 2
\* Longest format list a surface capability query reports.
MaxFormats == 2
\* Number of swapchain images get_current_texture hands out.
NumTextures == 2

\* ------------------------------------------------------------- value sets

Dims == 0..MaxDim
PhysicalSize == [width : Dims, height : Dims]
\* Window::inner_size() of a freshly created window: never zero-sized.
InitialSize == [width : 1..MaxDim, height : 1..MaxDim]

TextureFormat == {"Bgra8Unorm", "Rgba8UnormSrgb"}
\* surface.get_capabilities(&adapter).formats: a possibly empty list.
FormatLists == UNION {[1..n -> TextureFormat] : n \in 0..MaxFormats}
\* device.features(), as far as the renderer looks at it.
FeatureSets == {{}, {"POLYGON_MODE_LINE"}}
Textures == 1..NumTextures

\* Option<T>
None == <<>>
Some(x) == <<x>>
IsSome(o) == o # None
Unwrap(o) == o[1]

\* ------------------------------------------------------ call log entries

NoConfig == [width |-> -1, height |-> -1, format |-> "-", view_format |-> "-"]
Call(name, cfg, obj, tex, count) ==
    [op |-> name, cfg |-> cfg, obj |-> obj, tex |-> tex, count |-> count]
Plain(name) == Call(name, NoConfig, "-", 0, 0)

\* ------------------------------------------------- framework.rs: helpers

add_srgb_suffix(format) ==
    CASE format = "Bgra8Unorm" -> "Bgra8UnormSrgb"
      [] format = "Rgba8Unorm" -> "Rgba8UnormSrgb"
      [] OTHER -> format

build_surface_config(surface_format, size) ==
    [width |-> size.width, height |-> size.height, format |-> surface_format,
     view_format |-> add_srgb_suffix(surface_format)]

\* ------------------------------------------------------ main.rs: the cube

RECURSIVE GCD(_, _)
GCD(a, b) == IF b = 0 THEN a ELSE GCD(b, a % b)

\* `w as f32 / h as f32` for small non-negative integers: the quotient is the
\* rounding of the exact rational, so equal rationals give equal floats and
\* different ones different floats; division by zero gives inf, 0/0 gives NaN.
F32Div(w, h) ==
    IF h = 0
    THEN IF w = 0 THEN [kind |-> "nan", num |-> 0, den |-> 0]
                  ELSE [kind |-> "inf", num |-> 1, den |-> 0]
    ELSE [kind |-> "finite", num |-> w \div GCD(w, h), den |-> h \div GCD(w, h)]

\* cot(fov/2) / aspect, in units of cot(fov/2): the only entry of
\* Mat4::perspective_rh that depends on the aspect ratio.
PerspectiveXScale(aspect) ==
    CASE aspect.kind = "nan" -> aspect
      [] aspect.kind = "inf" -> [kind |-> "finite", num |-> 0, den |-> 1]
      [] aspect.num = 0 -> [kind |-> "inf", num |-> 1, den |-> 0]
      [] OTHER -> [kind |-> "finite", num |-> aspect.den, den |-> aspect.num]

\* projection * view; eye coordinates are in tenths.
create_view_projection_matrix(aspect_ratio) ==
    [x_scale |-> PerspectiveXScale(aspect_ratio),
     fov_y |-> "FRAC_PI_4", z_near |-> 1, z_far |-> 10,
     eye |-> <<15, -50, 30>>, center |-> <<0, 0, 0>>, up |-> "Z"]

Face(p1, p2, p3, p4, color) ==
    << [position |-> p1, color |-> color], [position |-> p2, color |-> color],
       [position |-> p3, color |-> color], [position |-> p4, color |-> color] >>

CubeVertices ==
       Face(<<-1, -1, 1, 1>>, <<1, -1, 1, 1>>, <<1, 1, 1, 1>>, <<-1, 1, 1, 1>>, "top_color")
    \o Face(<<-1, 1, -1, 1>>, <<1, 1, -1, 1>>, <<1, -1, -1, 1>>, <<-1, -1, -1, 1>>, "bottom_color")
    \o Face(<<1, -1, -1, 1>>, <<1, 1, -1, 1>>, <<1, 1, 1, 1>>, <<1, -1, 1, 1>>, "right_color")
    \o Face(<<-1, -1, 1, 1>>, <<-1, 1, 1, 1>>, <<-1, 1, -1, 1>>, <<-1, -1, -1, 1>>, "left_color")
    \o Face(<<1, 1, -1, 1>>, <<-1, 1, -1, 1>>, <<-1, 1, 1, 1>>, <<1, 1, 1, 1>>, "front_color")
    \o Face(<<1, -1, 1, 1>>, <<-1, -1, 1, 1>>, <<-1, -1, -1, 1>>, <<1, -1, -1, 1>>, "back_color")

CubeIndices ==
    << 0, 1, 2, 2, 3, 0,
       4, 5, 6, 6, 7, 4,
       8, 9, 10, 10, 11, 8,
       12, 13, 14, 14, 15, 12,
       16, 17, 18, 18, 19, 16,
       20, 21, 22, 22, 23, 20 >>

create_cube_geometry == [vertices |-> CubeVertices, indices |-> CubeIndices]

\* Cube::new: every resource is built here; the wireframe pipeline only when
\* the device's feature set contains POLYGON_MODE_LINE.
Cube_new(config, context) ==
    [vertex_buffer |-> create_cube_geometry.vertices,
     index_buffer |-> create_cube_geometry.indices,
     index_count |-> Len(create_cube_geometry.indices),
     uniform_buffer |->
         create_view_projection_matrix(F32Div(config.width, config.height)),
     bind_group |-> "uniform_buffer@0",
     render_pipeline |-> "vs_main+fs_main",
     wireframe_pipeline |->
         IF "POLYGON_MODE_LINE" \in context.features
         THEN Some("vs_main+fs_wire") ELSE None]

\* Cube::update_transform_matrix: a write into the existing uniform buffer.
update_transform_matrix(cube, aspect_ratio) ==
    [cube EXCEPT !.uniform_buffer = create_view_projection_matrix(aspect_ratio)]

\* Variant of resize: the aspect ratio taken as height / width.
Cube_resize_inverted(cube, config) ==
    update_transform_matrix(cube, F32Div(config.height, config.width))

\* Variant of resize: the wireframe pipeline is dropped when the transform
\* is rewritten.
Cube_resize_rebuild(cube, config) ==
    [update_transform_matrix(cube, F32Div(config.width, config.height))
        EXCEPT !.wireframe_pipeline = None]

\* <Cube as Main>::resize
Cube_resize(cube, config) ==
    update_transform_matrix(cube, F32Div(config.width, config.height))

\* Variant of update: the event resets the transform to the square aspect.
Cube_update_resets(cube, event) ==
    update_transform_matrix(cube, F32Div(1, 1))

\* <Cube as Main>::update: empty body.
Cube_update(cube, event) == cube

\* Variant of the draw call: the element range taken from the vertex table.
DrawCall_vertex_range(cube, pipeline, polygon_mode, tex) ==
    [op |-> "draw", cfg |-> NoConfig, obj |-> polygon_mode, tex |-> tex,
     count |-> Len(cube.vertex_buffer), pipeline |-> pipeline,
     bind_group |-> cube.bind_group, transform |-> cube.uniform_buffer]

\* DrawCall { .. element_range: 0..self.index_count, .. }
DrawCall(cube, pipeline, polygon_mode, tex) ==
    [op |-> "draw", cfg |-> NoConfig, obj |-> polygon_mode, tex |-> tex,
     count |-> cube.index_count, pipeline |-> pipeline,
     bind_group |-> cube.bind_group, transform |-> cube.uniform_buffer]

\* Variant of render: the wireframe pass recorded before the solid pass.
Cube_render_wire_first(cube, tex) ==
    [cube |-> cube,
     draws |-> (IF IsSome(cube.wireframe_pipeline)
                THEN <<DrawCall(cube, Unwrap(cube.wireframe_pipeline), "Line", tex)>>
                ELSE <<>>)
               \o <<DrawCall(cube, cube.render_pipeline, "Fill", tex)>>]

\* <Cube as Main>::render: the draw calls recorded into the render pass of
\* the target; the cube itself is only read.
Cube_render(cube, tex) ==
    [cube |-> cube,
     draws |-> <<DrawCall(cube, cube.render_pipeline, "Fill", tex)>>
               \o (IF IsSome(cube.wireframe_pipeline)
                   THEN <<DrawCall(cube, Unwrap(cube.wireframe_pipeline), "Line", tex)>>
                   ELSE <<>>)]

\* --------------------------------------------------- framework.rs: State

\* Surface::configure: records the configuration now in effect.  wgpu
\* documents a zero width or height as a caller error; whether the call
\* panics or is accepted is left to the platform (accepts_zero).
configure_surface(st, accepts_zero) ==
    LET surface_config == build_surface_config(st.surface_format, st.size)
        call == Call("configure", surface_config, "surface", 0, 0)
    IN  IF (surface_config.width = 0 \/ surface_config.height = 0) /\ ~accepts_zero
        THEN [panicked |-> TRUE, state |-> st, ops |-> <<call>>]
        ELSE [panicked |-> FALSE,
              state |-> [st EXCEPT !.surface = Some(surface_config)],
              ops |-> <<call>>]

\* surface.get_capabilities(&adapter), with the format list it reported.
Capabilities(formats) ==
    [op |-> "get_capabilities", cfg |-> NoConfig, obj |-> "-", tex |-> 0,
     count |-> Len(formats), formats |-> formats]

\* Variant of State::new: the surface is left unconfigured.
State_new_unconfigured(window, size, formats, features, accepts_zero) ==
    IF formats = <<>>
    THEN [panicked |-> TRUE, state |-> None,
          ops |-> <<Plain("request_device"), Capabilities(formats)>>]
    ELSE LET surface_format == formats[1]
             context == [features |-> features]
             config == build_surface_config(surface_format, size)
         IN  [panicked |-> FALSE,
              state |-> Some([window |-> window, size |-> size,
                              surface_format |-> surface_format, surface |-> None,
                              context |-> context,
                              example |-> Cube_new(config, context)]),
              ops |-> <<Plain("request_device"), Capabilities(formats),
                        Call("example_init", config, "example", 0, 0)>>]

\* Variant of State::new: the last reported format is taken for the State,
\* after the renderer was initialised with the first.
State_new_last_format(window, size, formats, features, accepts_zero) ==
    IF formats = <<>>
    THEN [panicked |-> TRUE, state |-> None,
          ops |-> <<Plain("request_device"), Capabilities(formats)>>]
    ELSE LET context == [features |-> features]
             config == build_surface_config(formats[1], size)
             st == [window |-> window, size |-> size,
                    surface_format |-> formats[Len(formats)], surface |-> None,
                    context |-> context, example |-> Cube_new(config, context)]
             conf == configure_surface(st, accepts_zero)
         IN  [panicked |-> conf.panicked,
              state |-> Some(conf.state),
              ops |-> <<Plain("request_device"), Capabilities(formats),
                        Call("example_init", config, "example", 0, 0)>> \o conf.ops]

\* State::new: size from the window, first reported format, renderer init
\* with the configuration, then the surface is configured.
State_new(window, size, formats, features, accepts_zero) ==
    IF formats = <<>>
    THEN [panicked |-> TRUE, state |-> None,
          ops |-> <<Plain("request_device"), Capabilities(formats)>>]
    ELSE LET surface_format == formats[1]
             context == [features |-> features]
             config == build_surface_config(surface_format, size)
             example == Cube_new(config, context)
             st == [window |-> window, size |-> size,
                    surface_format |-> surface_format, surface |-> None,
                    context |-> context, example |-> example]
             conf == configure_surface(st, accepts_zero)
         IN  [panicked |-> conf.panicked,
              state |-> Some(conf.state),
              ops |-> <<Plain("request_device"), Capabilities(formats),
                        Call("example_init", config, "example", 0, 0)>> \o conf.ops]

\* Variant of resize: the surface is reconfigured before the new size is
\* stored.
State_resize_stale(st, new_size, accepts_zero) ==
    LET conf == configure_surface(st, accepts_zero)
        stored == [conf.state EXCEPT !.size = new_size]
        config == build_surface_config(stored.surface_format, stored.size)
    IN  [panicked |-> conf.panicked,
         state |-> [stored EXCEPT !.example = Cube_resize(@, config)],
         ops |-> conf.ops \o <<Call("example_resize", config, "example", 0, 0)>>]

\* Variant of resize: the renderer is resized before the surface is
\* reconfigured.
State_resize_renderer_first(st, new_size, accepts_zero) ==
    LET stored == [st EXCEPT !.size = new_size]
        config == build_surface_config(stored.surface_format, stored.size)
        resized == [stored EXCEPT !.example = Cube_resize(@, config)]
        conf == configure_surface(resized, accepts_zero)
    IN  [panicked |-> conf.panicked,
         state |-> conf.state,
         ops |-> <<Call("example_resize", config, "example", 0, 0)>> \o conf.ops]

\* State::resize: store the size, reconfigure, forward to the renderer.
State_resize(st, new_size, accepts_zero) ==
    LET stored == [st EXCEPT !.size = new_size]
        conf == configure_surface(stored, accepts_zero)
    IN  IF conf.panicked
        THEN conf
        ELSE LET config == build_surface_config(conf.state.surface_format, conf.state.size)
             IN  [panicked |-> FALSE,
                  state |-> [conf.state EXCEPT !.example = Cube_resize(@, config)],
                  ops |-> conf.ops \o <<Call("example_resize", config, "example", 0, 0)>>]

\* The configuration in effect on the surface (NoConfig before the first
\* configure).
AppliedConfig(st) == IF IsSome(st.surface) THEN Unwrap(st.surface) ELSE NoConfig

\* Variant of render: the acquired texture is dropped without present().
State_render_unpresented(st, acquired) ==
    IF acquired = None
    THEN [panicked |-> TRUE, state |-> st,
          ops |-> <<Call("get_current_texture", AppliedConfig(st), "Err", 0, 0)>>]
    ELSE LET tex == Unwrap(acquired)
             drawn == Cube_render(st.example, tex)
         IN  [panicked |-> FALSE,
              state |-> [st EXCEPT !.example = drawn.cube],
              ops |-> <<Call("get_current_texture", AppliedConfig(st), "Ok", tex, 0),
                        Call("example_render", NoConfig,
                             add_srgb_suffix(st.surface_format), tex, 0)>>
                      \o drawn.draws]

\* Variant of render: a failed acquisition reconfigures the surface and
\* skips the frame instead of panicking.
State_render_recover(st, acquired) ==
    IF acquired = None
    THEN [panicked |-> FALSE, state |-> st,
          ops |-> <<Call("get_current_texture", AppliedConfig(st), "Err", 0, 0),
                    Call("configure", AppliedConfig(st), "surface", 0, 0)>>]
    ELSE LET tex == Unwrap(acquired)
             drawn == Cube_render(st.example, tex)
         IN  [panicked |-> FALSE,
              state |-> [st EXCEPT !.example = drawn.cube],
              ops |-> <<Call("get_current_texture", AppliedConfig(st), "Ok", tex, 0),
                        Call("example_render", NoConfig,
                             add_srgb_suffix(st.surface_format), tex, 0)>>
                      \o drawn.draws
                      \o <<Call("present", NoConfig, "surface_texture", tex, 0)>>]

\* Variant of render: the surface is reconfigured while the frame is
\* acquired.
State_render_reconfigures(st, acquired) ==
    IF acquired = None
    THEN [panicked |-> TRUE, state |-> st,
          ops |-> <<Call("get_current_texture", AppliedConfig(st), "Err", 0, 0)>>]
    ELSE LET tex == Unwrap(acquired)
             conf == configure_surface(st, TRUE)
             drawn == Cube_render(st.example, tex)
         IN  [panicked |-> FALSE,
              state |-> [conf.state EXCEPT !.example = drawn.cube],
              ops |-> <<Call("get_current_texture", AppliedConfig(st), "Ok", tex, 0)>>
                      \o conf.ops
                      \o <<Call("example_render", NoConfig,
                                add_srgb_suffix(st.surface_format), tex, 0)>>
                      \o drawn.draws
                      \o <<Call("present", NoConfig, "surface_texture", tex, 0)>>]

\* State::render: acquired is the result of get_current_texture, None for
\* an Err (the expect panics), Some(texture) otherwise.
State_render(st, acquired) ==
    IF acquired = None
    THEN [panicked |-> TRUE, state |-> st,
          ops |-> <<Call("get_current_texture", AppliedConfig(st), "Err", 0, 0)>>]
    ELSE LET tex == Unwrap(acquired)
             target_format == add_srgb_suffix(st.surface_format)
             drawn == Cube_render(st.example, tex)
         IN  [panicked |-> FALSE,
              state |-> [st EXCEPT !.example = drawn.cube],
              ops |-> <<Call("get_current_texture", AppliedConfig(st), "Ok", tex, 0),
                        Call("example_render", NoConfig, target_format, tex, 0)>>
                      \o drawn.draws
                      \o <<Call("present", NoConfig, "surface_texture", tex, 0)>>]

\* State::update
State_update(st, event) ==
    [panicked |-> FALSE,
     state |-> [st EXCEPT !.example = Cube_update(@, event)],
     ops |-> <<Plain("example_update")>>]

\* ------------------------------------------------------- the event loop

VARIABLES
    loop,          \* run_app: "running", "returned" or "panicked"
    exiting,       \* event_loop.exit() has been called
    window,        \* id of the live window, 0 when there is none
    redraw,        \* a request_redraw of the live window is outstanding
    lateRedraw,    \* a redraw of the iteration in which exit() was called
                   \* has not been dispatched yet
    state,         \* App::state : Option<State<E>>
    ops,           \* calls made by the handler dispatched last, in order
    lastEvent,     \* the event dispatched last
    constructed,   \* number of State::new calls so far
    observed,      \* last size reported by the platform for the live window
    closeHandled,  \* a CloseRequested event has been handled
    resizedSeen,   \* a Resized event has been handled for the live window
    presented      \* parity of the number of frames presented

vars == <<loop, exiting, window, redraw, lateRedraw, state, ops, lastEvent,
          constructed, observed, closeHandled, resizedSeen, presented>>

OtherEvents == {"Focused", "CursorMoved"}
NoSize == [width |-> 0, height |-> 0]
Event(kind, size) == [kind |-> kind, size |-> size]

\* run: App { state: None } and the loop entered.
Init ==
    /\ loop = "running"
    /\ exiting = FALSE
    /\ window = 0
    /\ redraw = FALSE
    /\ lateRedraw = FALSE
    /\ state = None
    /\ ops = <<>>
    /\ lastEvent = Event("Init", NoSize)
    /\ constructed = 0
    /\ observed = NoSize
    /\ closeHandled = FALSE
    /\ resizedSeen = FALSE
    /\ presented = 0

\* A panic unwinds through run_app and run: app, and with it the State and
\* the window, are dropped and the process ends.
Panic(event, calls) ==
    /\ loop' = "panicked"
    /\ state' = None
    /\ window' = 0
    /\ redraw' = FALSE
    /\ lateRedraw' = FALSE
    /\ ops' = calls
    /\ lastEvent' = event
    /\ UNCHANGED <<exiting, closeHandled, presented>>

\* Variant of resumed: the State built is not stored in self.state.
resumed_forgets_state(size, formats, features) ==
    LET built == State_new(constructed + 1, size, formats, features, TRUE)
        calls == <<Plain("create_window")>> \o built.ops
    IN  /\ constructed' = constructed + 1
        /\ observed' = size
        /\ resizedSeen' = FALSE
        /\ IF built.panicked
           THEN Panic(Event("Resumed", size), calls)
           ELSE /\ window' = constructed + 1
                /\ redraw' = TRUE
                /\ ops' = calls \o <<Plain("drop_state"), Plain("request_redraw")>>
                /\ lastEvent' = Event("Resumed", size)
                /\ UNCHANGED <<loop, exiting, lateRedraw, closeHandled, presented,
                               state>>

\* App::resumed: a new window and a new State every time it is called; the
\* previous State, if any, is dropped by the assignment to self.state, after
\* the new one has been built.
resumed(size, formats, features) ==
    LET built == State_new(constructed + 1, size, formats, features, TRUE)
        calls == <<Plain("create_window")>> \o built.ops
    IN  /\ constructed' = constructed + 1
        /\ observed' = size
        /\ resizedSeen' = FALSE
        /\ IF built.panicked
           THEN Panic(Event("Resumed", size), calls)
           ELSE /\ state' = built.state
                /\ window' = constructed + 1
                /\ redraw' = TRUE
                /\ ops' = calls
                          \o (IF IsSome(state) THEN <<Plain("drop_state")>> ELSE <<>>)
                          \o <<Plain("request_redraw")>>
                /\ lastEvent' = Event("Resumed", size)
                /\ UNCHANGED <<loop, exiting, lateRedraw, closeHandled, presented>>

Resumed ==
    /\ loop = "running"
    /\ ~exiting
    /\ constructed < MaxResumes
    /\ \E size \in InitialSize, formats \in FormatLists, features \in FeatureSets :
           resumed(size, formats, features)

\* window_event, CloseRequested arm: only event_loop.exit().  The loop
\* ends after the iteration in progress, in which a redraw that was
\* already requested can still be dispatched.
window_event_close ==
    /\ exiting' = TRUE
    /\ closeHandled' = TRUE
    /\ lateRedraw' = redraw
    /\ ops' = <<Plain("exit")>>
    /\ lastEvent' = Event("CloseRequested", NoSize)
    /\ UNCHANGED <<loop, window, redraw, state, constructed, observed,
                   resizedSeen, presented>>

\* Variant of the RedrawRequested arm: no further redraw is requested.
window_event_redraw_once(acquired) ==
    LET r == State_render(Unwrap(state), acquired)
    IN  /\ UNCHANGED <<constructed, observed, resizedSeen>>
        /\ IF r.panicked
           THEN Panic(Event("RedrawRequested", NoSize), r.ops)
           ELSE /\ state' = Some(r.state)
                /\ ops' = r.ops
                /\ redraw' = FALSE
                /\ lateRedraw' = FALSE
                /\ presented' = 1 - presented
                /\ lastEvent' = Event("RedrawRequested", NoSize)
                /\ UNCHANGED <<loop, exiting, window, closeHandled>>

\* window_event, RedrawRequested arm: state.render() and then
\* state.window.request_redraw().
window_event_redraw(acquired) ==
    LET r == State_render(Unwrap(state), acquired)
    IN  /\ UNCHANGED <<constructed, observed, resizedSeen>>
        /\ IF r.panicked
           THEN Panic(Event("RedrawRequested", NoSize), r.ops)
           ELSE /\ state' = Some(r.state)
                /\ ops' = r.ops \o <<Plain("request_redraw")>>
                /\ redraw' = TRUE
                /\ lateRedraw' = FALSE
                /\ presented' = 1 - presented
                /\ lastEvent' = Event("RedrawRequested", NoSize)
                /\ UNCHANGED <<loop, exiting, window, closeHandled>>

\* window_event, Resized arm: state.resize(size).
window_event_resized(size, accepts_zero) ==
    LET r == State_resize(Unwrap(state), size, accepts_zero)
    IN  /\ observed' = size
        /\ resizedSeen' = TRUE
        /\ UNCHANGED constructed
        /\ IF r.panicked
           THEN Panic(Event("Resized", size), r.ops)
           ELSE /\ state' = Some(r.state)
                /\ ops' = r.ops
                /\ lastEvent' = Event("Resized", size)
                /\ UNCHANGED <<loop, exiting, window, redraw, lateRedraw,
                               closeHandled, presented>>

\* window_event, default arm: state.update(event).
window_event_other(kind) ==
    LET r == State_update(Unwrap(state), kind)
    IN  /\ state' = Some(r.state)
        /\ ops' = r.ops
        /\ lastEvent' = Event(kind, NoSize)
        /\ UNCHANGED <<loop, exiting, window, redraw, lateRedraw, constructed,
                       observed, closeHandled, resizedSeen, presented>>

\* self.state.as_mut().unwrap() at the head of window_event.
UnwrapState(event) ==
    /\ state = None
    /\ Panic(event, <<>>)
    /\ UNCHANGED <<constructed, observed, resizedSeen>>

\* The platform dispatches window events only for a live window, and, once
\* exit() has been called, only what is left of the current iteration.
Dispatching == loop = "running" /\ window # 0 /\ ~exiting

CloseRequested ==
    /\ Dispatching
    /\ IF state = None THEN UnwrapState(Event("CloseRequested", NoSize))
                       ELSE window_event_close

RedrawRequested ==
    /\ loop = "running" /\ window # 0
    /\ IF exiting THEN lateRedraw ELSE redraw
    /\ \E acquired \in {None} \cup {Some(t) : t \in Textures} :
           IF state = None THEN UnwrapState(Event("RedrawRequested", NoSize))
                           ELSE window_event_redraw(acquired)

Resized ==
    /\ Dispatching
    /\ \E size \in PhysicalSize, accepts_zero \in BOOLEAN :
           IF state = None THEN UnwrapState(Event("Resized", size))
                           ELSE window_event_resized(size, accepts_zero)

Other ==
    /\ Dispatching
    /\ \E kind \in OtherEvents :
           IF state = None THEN UnwrapState(Event(kind, NoSize))
                           ELSE window_event_other(kind)

\* run_app returns once exit() has been called; run returns and drops app.
LoopExit ==
    /\ loop = "running"
    /\ exiting
    /\ loop' = "returned"
    /\ state' = None
    /\ window' = 0
    /\ redraw' = FALSE
    /\ lateRedraw' = FALSE
    /\ ops' = IF IsSome(state) THEN <<Plain("drop_state")>> ELSE <<>>
    /\ lastEvent' = Event("LoopExiting", NoSize)
    /\ UNCHANGED <<exiting, constructed, observed, closeHandled, resizedSeen,
                   presented>>

Next ==
    \/ Resumed
    \/ CloseRequested
    \/ RedrawRequested
    \/ Resized
    \/ Other
    \/ LoopExit

Spec == Init /\ [][Next]_vars

\* The platform delivers a requested redraw: winit turns every
\* request_redraw into a RedrawRequested event of a later iteration.
FairSpec == Spec /\ WF_vars(RedrawRequested)

\* ------------------------------------------------------------ properties

Named(calls, names) == SelectSeq(calls, LAMBDA c : c.op \in names)
Count(calls, names) == Len(Named(calls, names))

\* The handler dispatched last was the RedrawRequested arm, so State::render ran.
RenderRan == lastEvent.kind = "RedrawRequested" /\ ops # <<>>
\* ... and get_current_texture returned a texture.
FrameAcquired == RenderRan /\ ops[1].op = "get_current_texture" /\ ops[1].obj = "Ok"
\* ... and get_current_texture returned an error.
AcquireFailed == RenderRan /\ ops[1].op = "get_current_texture" /\ ops[1].obj = "Err"

\* The driver of the spec: Running is a State present, no exit requested.
Running == loop = "running" /\ IsSome(state) /\ ~exiting
Stopped == exiting

\* C1: whenever State::render runs, the configuration in effect on the
\* surface has the width and height the platform reported last for the
\* window (the Resized argument, or the inner size at creation when no
\* Resized was handled); the same holds between any two handlers.
C1_RenderSeesLatestSize ==
    /\ RenderRan =>
          /\ ops[1].op = "get_current_texture"
          /\ ops[1].cfg.width = observed.width
          /\ ops[1].cfg.height = observed.height
    /\ IsSome(state) =>
          /\ AppliedConfig(Unwrap(state)).width = observed.width
          /\ AppliedConfig(Unwrap(state)).height = observed.height

\* A frame rendered after a Resized event was handled.
C1_Witness == FrameAcquired /\ resizedSeen /\ observed = [width |-> 2, height |-> 1]

\* C2: once a CloseRequested event has been handled, State::render is not
\* called again (no handler after it acquires a texture).
C2_NoRenderAfterClose ==
    closeHandled => Count(ops, {"get_current_texture"}) = 0

\* C3: State::new (and with it Renderer.init) is executed at most once.
C3_ConstructedOnce == constructed <= 1

\* Renderer instances alive after each call of the handler dispatched last:
\* init creates one, dropping a State destroys one.
AliveNow == IF IsSome(state) THEN 1 ELSE 0
Delta(c) == IF c.op = "example_init" THEN 1 ELSE IF c.op = "drop_state" THEN -1 ELSE 0
RECURSIVE Net(_)
Net(calls) == IF calls = <<>> THEN 0 ELSE Delta(Head(calls)) + Net(Tail(calls))
AliveAfter(i) == (AliveNow - Net(ops)) + Net(SubSeq(ops, 1, i))

\* C4: at every point of every handler at most one renderer instance is
\* alive.
C4_OneRendererAlive ==
    loop = "running" => \A i \in 0..Len(ops) : AliveAfter(i) <= 1

\* C5: a render that acquires a texture makes exactly one acquire, one
\* Renderer.render and one present, in this order and on the same texture,
\* with the draw calls in between; in every handler the number of presents
\* equals the number of textures acquired.
C5_FrameProtocol ==
    /\ FrameAcquired =>
          LET frame == Named(ops, {"get_current_texture", "example_render", "present"})
              body == Named(ops, {"get_current_texture", "example_render", "draw", "present"})
          IN  /\ Len(frame) = 3
              /\ frame[1].op = "get_current_texture"
              /\ frame[2].op = "example_render"
              /\ frame[3].op = "present"
              /\ frame[1].tex \in Textures
              /\ \A i \in 1..Len(body) : body[i].tex = frame[1].tex
              /\ body[Len(body)].op = "present"
              /\ body[2].op = "example_render"
    /\ Count(ops, {"present"}) =
          Len(SelectSeq(ops, LAMBDA c : c.op = "get_current_texture" /\ c.obj = "Ok"))

\* A frame acquired, drawn with the solid pass only, and presented.
C5_Witness ==
    /\ FrameAcquired
    /\ Count(ops, {"draw"}) = 1
    /\ Count(ops, {"present"}) = 1

\* The draw calls of the handler dispatched last.
Draws == Named(ops, {"draw"})

C6_DrawsMatchCapability ==
    FrameAcquired =>
        LET cube == Unwrap(state).example
        IN  IF "POLYGON_MODE_LINE" \in Unwrap(state).context.features
            THEN /\ Len(Draws) = 2
                 /\ Draws[1].pipeline = cube.render_pipeline
                 /\ Draws[1].obj = "Fill"
                 /\ IsSome(cube.wireframe_pipeline)
                 /\ Draws[2].pipeline = Unwrap(cube.wireframe_pipeline)
                 /\ Draws[2].obj = "Line"
            ELSE /\ Len(Draws) = 1
                 /\ Draws[1].pipeline = cube.render_pipeline
                 /\ Draws[1].obj = "Fill"
                 /\ cube.wireframe_pipeline = None

C6_WireframeFixed ==
    (IsSome(state) /\ IsSome(state') /\ Unwrap(state').window = Unwrap(state).window)
        => Unwrap(state').example.wireframe_pipeline
               = Unwrap(state).example.wireframe_pipeline

\* C6: a render issues one draw (solid) when the device lacks
\* POLYGON_MODE_LINE and two (solid, then wireframe) when it has it; whether
\* a renderer has the wireframe pipeline never changes after its init.
C6_SolidThenWireframe == [] C6_DrawsMatchCapability /\ [][C6_WireframeFixed]_vars

\* A frame drawn with both passes after a resize.
C6_Witness == FrameAcquired /\ resizedSeen /\ Len(Draws) = 2

C7_FailureIsFatal ==
    AcquireFailed =>
        /\ loop = "panicked"
        /\ Len(ops) = 1
        /\ ~redraw /\ ~lateRedraw
        /\ state = None

\* C7: a failed acquisition ends the process: the handler makes no other
\* call (no Renderer.render, no present, no request_redraw, no configure)
\* and no handler runs afterwards.
C7_AcquireFailureFatal == [] C7_FailureIsFatal /\ [][loop # "panicked"]_vars

\* The process ended by a failed acquisition.
C7_Witness == AcquireFailed /\ loop = "panicked"

\* C8: the uniform buffer holds the transform of the aspect ratio
\* width / height of the size stored in State, and every draw uses it.
C8_UniformMatchesSize ==
    IsSome(state) =>
        LET st == Unwrap(state)
            expected == create_view_projection_matrix(F32Div(st.size.width, st.size.height))
        IN  /\ st.example.uniform_buffer = expected
            /\ FrameAcquired => \A i \in 1..Len(Draws) : Draws[i].transform = expected

\* A frame drawn after a resize to 1x2 (aspect 1/2, x scale 2).
C8_Witness ==
    /\ FrameAcquired /\ resizedSeen
    /\ Unwrap(state).size = [width |-> 1, height |-> 2]
    /\ Unwrap(state).example.uniform_buffer.x_scale = [kind |-> "finite", num |-> 2, den |-> 1]

C9_RedrawOutstanding ==
    /\ Running => redraw
    /\ (lastEvent.kind = "Resumed" /\ loop = "running") =>
          /\ Count(ops, {"request_redraw"}) = 1
          /\ ops[Len(ops)].op = "request_redraw"
    /\ FrameAcquired =>
          /\ Count(ops, {"request_redraw"}) = 1
          /\ ops[Len(ops)].op = "request_redraw"
          /\ Count(ops, {"example_render"}) = 1

\* C9: resumed requests a redraw, every redraw handled renders and requests
\* exactly one more; while Running a redraw request is outstanding, and the
\* platform delivering requested redraws, another frame is always rendered
\* unless the driver leaves Running.
C9_ContinuousLoop ==
    /\ [] C9_RedrawOutstanding
    /\ \A b \in {0, 1} : (Running /\ presented = b) ~> (presented # b \/ ~Running)

\* The loop has come round: a second frame was presented while Running.
C9_Witness == Running /\ FrameAcquired /\ presented = 0

C10_ResizeStep ==
    (lastEvent'.kind = "Resized" /\ IsSome(state) /\ IsSome(state')) =>
        /\ Unwrap(state').example =
              [Unwrap(state).example EXCEPT
                  !.uniform_buffer = Unwrap(state').example.uniform_buffer]
        /\ Count(ops', {"example_resize"}) = 1
C10_RenderStep ==
    (lastEvent'.kind = "RedrawRequested" /\ IsSome(state) /\ IsSome(state')) =>
        Unwrap(state').example = Unwrap(state).example

\* C10: a resize changes nothing of the renderer but the content of the
\* uniform buffer, and a render changes nothing of the renderer at all.
C10_ResizeWritesUniformOnly == [][C10_ResizeStep /\ C10_RenderStep]_vars

\* A resize that changed the transform of a renderer with both pipelines.
C10_Witness ==
    /\ lastEvent.kind = "Resized" /\ IsSome(state)
    /\ IsSome(Unwrap(state).example.wireframe_pipeline)
    /\ Unwrap(state).size = [width |-> 2, height |-> 1]

\* What a handler can change besides the call log and the event dispatched.
System == <<loop, exiting, window, redraw, lateRedraw, state, presented>>

C11_OtherStep ==
    lastEvent'.kind \in OtherEvents =>
        /\ Len(ops') = 1
        /\ ops'[1].op = "example_update"
        /\ System' = System

\* C11: an event that is not CloseRequested, RedrawRequested or Resized is
\* forwarded once to Renderer.update and changes nothing: no configure, no
\* acquire, render or present, no redraw request, no driver transition, and
\* the cube is left as it was.
C11_OtherEventsOnlyUpdate == [][C11_OtherStep]_vars

\* An other event handled between a resize and the next frame, with a
\* redraw outstanding.
C11_Witness ==
    /\ lastEvent.kind \in OtherEvents
    /\ Running /\ redraw /\ resizedSeen
    /\ Unwrap(state).size = [width |-> 1, height |-> 2]

\* C12: the vertex table has 24 entries and the index table 36, every index
\* is in 0..23, and every draw call's element range is the 36 indices.
C12_GeometryInRange ==
    /\ IsSome(state) =>
          LET cube == Unwrap(state).example
          IN  /\ Len(cube.vertex_buffer) = 24
              /\ Len(cube.index_buffer) = 36
              /\ \A i \in 1..Len(cube.index_buffer) :
                     cube.index_buffer[i] \in 0..(Len(cube.vertex_buffer) - 1)
              /\ cube.index_count = 36
    /\ \A i \in 1..Len(Draws) :
          /\ Draws[i].count = 36
          /\ IsSome(state) => Draws[i].count = Len(Unwrap(state).example.index_buffer)

\* A frame drawn with both passes, each over the whole index table.
C12_Witness ==
    /\ FrameAcquired /\ Len(Draws) = 2
    /\ Draws[1].count = 36 /\ Draws[2].count = 36

\* The calls of State::new that the renderer and the surface see.
InitCalls == Named(ops, {"example_init", "configure"})
\* The format list the capability query of the last State::new reported.
ReportedFormats == Named(ops, {"get_capabilities"})[1].formats
WindowEvents == {"CloseRequested", "RedrawRequested", "Resized"} \cup OtherEvents

\* C13: State::new calls Renderer.init with the configuration of the
\* window's inner size and the first reported format, then configures the
\* surface with the same size and format; the handler makes no render,
\* resize or update call, no window event is handled before a State was
\* constructed, and no texture is acquired from an unconfigured surface.
C13_InitThenConfigure ==
    /\ (lastEvent.kind = "Resumed" /\ loop = "running") =>
          /\ Len(InitCalls) = 2
          /\ InitCalls[1].op = "example_init"
          /\ InitCalls[2].op = "configure"
          /\ \A i \in 1..2 :
                /\ InitCalls[i].cfg.width = observed.width
                /\ InitCalls[i].cfg.height = observed.height
                /\ InitCalls[i].cfg.format = ReportedFormats[1]
          /\ Count(ops, {"get_current_texture", "example_render", "present",
                         "example_resize", "example_update"}) = 0
    /\ IsSome(state) => IsSome(Unwrap(state).surface)
    /\ lastEvent.kind \in WindowEvents => constructed >= 1
    /\ \A i \in 1..Len(ops) :
          ops[i].op = "get_current_texture" => ops[i].cfg.format # NoConfig.format

\* A State just constructed from a capability list of two different formats.
C13_Witness ==
    /\ lastEvent.kind = "Resumed" /\ Running
    /\ Len(ReportedFormats) = 2
    /\ ReportedFormats[1] # ReportedFormats[2]
    /\ observed = [width |-> 2, height |-> 1]

C14_ResizeCalls ==
    (lastEvent.kind = "Resized" /\ ops # <<>>) =>
        /\ ops[1].op = "configure"
        /\ ops[1].cfg.width = lastEvent.size.width
        /\ ops[1].cfg.height = lastEvent.size.height
        /\ Count(ops, {"configure"}) = 1
        /\ Count(ops, {"get_current_texture", "example_render", "draw", "present",
                       "request_redraw"}) = 0
        /\ IF loop = "running"
           THEN /\ Len(ops) = 2
                /\ ops[2].op = "example_resize"
                /\ ops[2].cfg.width = lastEvent.size.width
                /\ ops[2].cfg.height = lastEvent.size.height
                /\ Unwrap(state).size = lastEvent.size
           ELSE Len(ops) = 1

C14_ResizeStep ==
    (lastEvent'.kind = "Resized" /\ loop' = "running") =>
        /\ redraw' = redraw
        /\ presented' = presented

C15_ConfigureIdempotentSafe ==
    /\ IsSome(state) =>
          \A accepts_zero \in BOOLEAN :
              LET st == Unwrap(state)
                  once == configure_surface(st, accepts_zero)
                  twice == configure_surface(once.state, accepts_zero)
              IN  /\ twice.state = once.state
                  /\ once.state = [st EXCEPT !.surface = once.state.surface]
    /\ Count(ops, {"configure"}) > 0 => loop = "running"

\* The calls each handler makes; a call of another handler in a handler's
\* log would be that handler running inside it.
CallsOf(kind) ==
    CASE kind = "RedrawRequested" ->
             {"get_current_texture", "example_render", "draw", "present", "request_redraw"}
      [] kind = "Resized" -> {"configure", "example_resize"}
      [] kind = "CloseRequested" -> {"exit"}
      [] kind \in OtherEvents -> {"example_update"}
      [] OTHER -> {"create_window", "request_device", "get_capabilities", "example_init",
                   "configure", "drop_state", "request_redraw"}

C16_OneHandler ==
    /\ \A i \in 1..Len(ops) : ops[i].op \in CallsOf(lastEvent.kind)
    /\ FrameAcquired =>
          /\ Count(ops, {"get_current_texture"}) = 1
          /\ ops[Len(ops) - 1].op = "present"
          /\ \A i \in 2..(Len(ops) - 2) : ops[i].op \in {"example_render", "draw"}

C16_FrameStep ==
    (lastEvent'.kind = "RedrawRequested" /\ IsSome(state) /\ IsSome(state')) =>
        /\ Unwrap(state').size = Unwrap(state).size
        /\ Unwrap(state').surface = Unwrap(state).surface

\* C16: a handler makes only its own calls, so no resize, update, close or
\* second render runs inside it; between the acquire and the present of a
\* frame the surface is not reconfigured and the stored size does not change.
C16_HandlersRunToCompletion == [] C16_OneHandler /\ [][C16_FrameStep]_vars

\* A second frame presented on a surface that was resized to 2x2.
C16_Witness ==
    /\ FrameAcquired /\ resizedSeen /\ presented = 0
    /\ Unwrap(state).size = [width |-> 2, height |-> 2]

\* The configurations handed to the renderer by the handler dispatched last.
Handed == Named(ops, {"example_init", "example_resize"})

C17_ConfigsAgree ==
    /\ (IsSome(state) /\ Count(ops, {"configure"}) > 0) => Len(Handed) > 0
    /\ (IsSome(state) /\ Len(Handed) > 0) =>
          LET last == Handed[Len(Handed)].cfg
              applied == AppliedConfig(Unwrap(state))
          IN  /\ last.width = applied.width
              /\ last.height = applied.height
              /\ last.format = applied.format
    /\ (lastEvent.kind = "Resumed" /\ loop = "running") =>
          /\ Unwrap(state).surface_format = ReportedFormats[1]
          /\ AppliedConfig(Unwrap(state)).format = ReportedFormats[1]

C17_ConfigStep ==
    (IsSome(state) /\ IsSome(state')) =>
        /\ Count(ops', {"example_init", "example_resize", "configure"}) = 0
              => Unwrap(state').surface = Unwrap(state).surface
        /\ Unwrap(state').window = Unwrap(state).window
              => /\ Unwrap(state').surface_format = Unwrap(state).surface_format
                 /\ AppliedConfig(Unwrap(state')).format = AppliedConfig(Unwrap(state)).format

\* C17: after every handler that hands the renderer a configuration, that
\* configuration and the one in effect on the surface have the same width,
\* height and format, and a handler that hands it none leaves the surface's
\* as it is; the format is the first one reported at init and stays.
C17_RendererAndSurfaceAgree == [] C17_ConfigsAgree /\ [][C17_ConfigStep]_vars

\* A resize handled on a surface whose format was the first of two reported.
C17_Witness ==
    /\ lastEvent.kind = "Resized" /\ Running
    /\ Unwrap(state).surface_format = "Rgba8UnormSrgb"
    /\ AppliedConfig(Unwrap(state)).width = 2
    /\ AppliedConfig(Unwrap(state)).height = 1

\* C18: a window event is only dispatched while a State is present, so the
\* unwrap at the head of window_event never panics.
C18_StatePresentAtDispatch ==
    /\ window # 0 => IsSome(state)
    /\ lastEvent.kind \in WindowEvents => (ops # <<>> /\ constructed >= 1)

\* A window event handled by a State that replaced an earlier one.
C18_Witness ==
    /\ lastEvent.kind = "Resized" /\ Running
    /\ constructed = 2

\* C19: no surface configuration has a zero width or height, and the cube
\* never divides by a height of 0.
C19_NoZeroSize ==
    \A i \in 1..Len(ops) :
        /\ ops[i].op = "configure" => (ops[i].cfg.width # 0 /\ ops[i].cfg.height # 0)
        /\ ops[i].op \in {"example_init", "example_resize"} => ops[i].cfg.height # 0
====
